---- MODULE Spec2Model ----
(***************************************************************************)
(* A model of src/utils/RadixTrie.py: the radix trie (RadixNode and the    *)
(* RadixTrie facade), its recursive insertion, its counting search and the *)
(* functools.cache memo that decorates RadixNode.find.                     *)
(*                                                                         *)
(* Strings are sequences of one-character strings.  Nodes live in an arena *)
(* (a sequence of records); a node reference is its index in the arena.    *)
(* A Python dict is a function whose DOMAIN is the set of keys present.    *)
(***************************************************************************)
EXTENDS Integers, Sequences, FiniteSets, TLC

VARIABLES nodes, cache, added, last, nq

vars == <<nodes, cache, added, last, nq>>

\* ------------------------------------------------------------------ bounds
Alphabet == {"a", "b"}
MaxWordLen == 3
MaxQueryLen == 4
MaxAdds == 3
MaxQueries == 1
MemoAdds == 2
MemoQueries == 2

RECURSIVE StringsUpTo(_)
StringsUpTo(n) ==
    IF n = 0 THEN {<< >>}
    ELSE LET S == StringsUpTo(n - 1)
         IN  S \cup {<<c>> \o s : c \in Alphabet, s \in {t \in S : Len(t) = n - 1}}

Words == StringsUpTo(MaxWordLen)
Queries == StringsUpTo(MaxQueryLen)

\* ------------------------------------------------------------------ RadixNode
\* RadixNode.__init__: prefix, is_leaf, root (self when root is None), children = {}
NoChildren == [c \in {} |-> 0]

RadixNode(rootRef, prefix, is_leaf) ==
    [prefix |-> prefix, is_leaf |-> is_leaf, root |-> rootRef, children |-> NoChildren]

\* RadixTrie.__init__: self.root = RadixNode(); the root is the first node of the arena
root == 1

NewTrie == << RadixNode(root, << >>, FALSE) >>

\* the loop of match_prefix: the number of leading positions where both agree
RECURSIVE CommonLen(_, _)
CommonLen(a, b) ==
    IF a = << >> \/ b = << >> THEN 0
    ELSE IF Head(a) # Head(b) THEN 0
    ELSE 1 + CommonLen(Tail(a), Tail(b))

\* RadixNode.match_prefix: (matching, remaining_prefix, remaining_word)
match_prefix(prefix, word) ==
    LET i == CommonLen(prefix, word)
    IN  [matching         |-> SubSeq(prefix, 1, i),
         remaining_prefix |-> SubSeq(prefix, i + 1, Len(prefix)),
         remaining_word   |-> SubSeq(word, i + 1, Len(word))]

\* dict.get(key, None): 0 stands for None
Get(children, key) == IF key \in DOMAIN children THEN children[key] ELSE 0

\* children[key] = value
Put(children, key, value) ==
    [k \in (DOMAIN children) \cup {key} |-> IF k = key THEN value ELSE children[k]]

\* ------------------------------------------------------------------ RadixNode.add
\* Case 1 (line 115): self.is_leaf = True
MarkLeaf(ns, self) == [ns EXCEPT ![self].is_leaf = TRUE]

\* Case 2 (line 121): self.children[word[0]] = RadixNode(root=self.root, prefix=word, is_leaf=True)
NewLeafChild(ns, self, word) ==
    LET fresh == Len(ns) + 1
    IN  Append([ns EXCEPT ![self].children = Put(@, Head(word), fresh)],
               RadixNode(ns[self].root, word, TRUE))

\* the split without line 144: the old child keeps its whole prefix
SplitChildKeepsPrefix(ns, self, matching, remaining_prefix) ==
    LET child == ns[self].children[Head(matching)]
        fresh == Len(ns) + 1
        moved == [ns EXCEPT ![self].children = Put(@, Head(matching), fresh)]
    IN  Append(moved,
               [RadixNode(ns[self].root, matching, FALSE)
                    EXCEPT !.children = Put(NoChildren, Head(remaining_prefix), child)])

\* Case 4 (lines 142-149): the old child keeps its identity, its subtree and its
\* leaf flag and shrinks to remaining_prefix; a fresh non-leaf node carrying the
\* matching part takes its place and adopts it.
SplitChild(ns, self, matching, remaining_prefix) ==
    LET child == ns[self].children[Head(matching)]
        fresh == Len(ns) + 1
        shrunk == [ns EXCEPT ![child].prefix = remaining_prefix,
                             ![self].children = Put(@, Head(matching), fresh)]
    IN  Append(shrunk,
               [RadixNode(ns[self].root, matching, FALSE)
                    EXCEPT !.children = Put(NoChildren, Head(remaining_prefix), child)])

\* RadixNode.add(word, is_repeating_prefix); the result is the arena after the
\* call and the exception that left it, if any (word[0] of an empty word).
RECURSIVE NodeAdd(_, _, _, _)
NodeAdd(ns, self, word, is_repeating_prefix) ==
    IF ns[self].prefix = word /\ ~ns[self].is_leaf /\ ~is_repeating_prefix
    THEN [nodes |-> MarkLeaf(ns, self), exc |-> "none"]
    ELSE IF word = << >>
    THEN [nodes |-> ns, exc |-> "IndexError"]
    ELSE IF Head(word) \notin DOMAIN ns[self].children
    THEN [nodes |-> NewLeafChild(ns, self, word), exc |-> "none"]
    ELSE
      LET child == ns[self].children[Head(word)]
          m == match_prefix(ns[child].prefix, word)
      IN  IF m.remaining_prefix = << >>
          THEN IF m.remaining_word = << >>
               THEN NodeAdd(ns, child, m.matching, FALSE)
               ELSE NodeAdd(ns, child, m.remaining_word,
                            Head(m.remaining_word) = Head(m.matching))
          ELSE LET split == SplitChild(ns, self, m.matching, m.remaining_prefix)
                   mid == Len(split)
               IN  IF m.remaining_word = << >>
                   THEN [nodes |-> MarkLeaf(split, mid), exc |-> "none"]
                   ELSE NodeAdd(split, mid, m.remaining_word, FALSE)

\* RadixTrie.add
TrieAdd(ns, word) == NodeAdd(ns, root, word, FALSE)

\* RadixTrie.add_many on a fresh trie
RECURSIVE add_many(_, _)
add_many(ns, words) ==
    IF words = << >> THEN ns
    ELSE add_many(TrieAdd(ns, Head(words)).nodes, Tail(words))

\* RadixTrie._count_nodes / size: every node below (and including) the given one
RECURSIVE SumCounts(_, _, _)
RECURSIVE count_nodes(_, _)
count_nodes(ns, node) == SumCounts(ns, ns[node].children, DOMAIN ns[node].children) + 1

SumCounts(ns, children, keys) ==
    IF keys = {} THEN 0
    ELSE LET k == CHOOSE x \in keys : TRUE
         IN  count_nodes(ns, children[k]) + SumCounts(ns, children, keys \ {k})

size(ns) == count_nodes(ns, root)

\* ------------------------------------------------------------------ RadixNode.find
\* functools.cache keys a call by its arguments as they were passed, so the three
\* ways the source calls find are three kinds of key:
\*   "default"  find(word)               RadixTrie.is_word              (line 205)
\*   "keyword"  find(string, loop=True)  is_sentence, possible_sentences (209, 213)
\*   "False" / "True"  find(word, loop)  the recursive calls            (165, 177)
Forms == {"default", "keyword", "False", "True"}

LoopOf(form) == form \in {"keyword", "True"}

PositionalForm(loop) == IF loop THEN "True" ELSE "False"

NoCache == [k \in {} |-> 0]

Returned(count, c) == [count |-> count, exc |-> "none", cache |-> c]

Raised(exc, c) == [count |-> -1, exc |-> exc, cache |-> c]

\* the memo stores the value of a call that returned (an exception stores nothing)
Memoize(c, key, r) ==
    IF r.exc = "none"
    THEN [r EXCEPT !.cache = [k \in (DOMAIN r.cache) \cup {key} |->
                                  IF k = key THEN r.count ELSE r.cache[k]]]
    ELSE r

RECURSIVE find(_, _, _, _, _, _)
RECURSIVE FindBody(_, _, _, _, _, _)
RECURSIVE Visit(_, _, _, _, _, _)

\* find without the memo lookup: every call computes afresh
findRecomputing(ns, c, active, self, word, form) ==
    LET key == <<self, word, form>>
    IN  IF key \in active THEN Raised("RecursionError", c)
        ELSE Memoize(c, key, FindBody(ns, c, active \cup {key}, self, word, LoopOf(form)))

\* the @cache wrapper (line 156).  active is the set of keys whose calls are in
\* progress: a call that re-enters one of them with the tree unchanged repeats
\* itself without end, which Python ends with RecursionError.
find(ns, c, active, self, word, form) ==
    LET key == <<self, word, form>>
    IN  IF key \in DOMAIN c THEN Returned(c[key], c)
        ELSE IF key \in active THEN Raised("RecursionError", c)
        ELSE Memoize(c, key, FindBody(ns, c, active \cup {key}, self, word, LoopOf(form)))

\* one round of the loop "for child in children" (lines 170-177): the count the
\* candidate contributes
Visit(ns, c, active, child, word, loop) ==
    IF child = 0 THEN Raised("AssertionError", c)
    ELSE LET m == match_prefix(ns[child].prefix, word)
         IN  IF m.remaining_prefix # << >> THEN Returned(0, c)
             ELSE IF m.remaining_word = << >>
             THEN Returned(IF ns[child].is_leaf THEN 1 ELSE 0, c)
             ELSE find(ns, c, active, child, m.remaining_word, PositionalForm(loop))

\* the body of RadixNode.find (lines 160-178)
FindBody(ns, c, active, self, word, loop) ==
    IF word = << >> THEN Raised("IndexError", c)
    ELSE
      LET first == Get(ns[self].children, Head(word))
      IN  IF first = 0
          THEN IF ~ns[self].is_leaf THEN Returned(0, c)
               ELSE find(ns, c, active, ns[self].root, word, PositionalForm(loop))
          ELSE LET r1 == Visit(ns, c, active, first, word, loop)
               IN  IF r1.exc # "none" \/ ~(ns[self].is_leaf /\ loop) THEN r1
                   ELSE LET second == Get(ns[ns[self].root].children, Head(word))
                            r2 == Visit(ns, r1.cache, active, second, word, loop)
                        IN  IF r2.exc # "none" THEN r2
                            ELSE Returned(r1.count + r2.count, r2.cache)

\* ------------------------------------------------------------------ RadixTrie
\* is_word: self.root.find(word) > 0
is_word(ns, c, word) == find(ns, c, {}, root, word, "default")

\* is_sentence: self.root.find(string, loop=True) > 0
\* possible_sentences: self.root.find(string, loop=True)
possible_sentences(ns, c, string) == find(ns, c, {}, root, string, "keyword")

is_sentence(ns, c, string) == possible_sentences(ns, c, string)

\* the boolean a facade query hands back when it returns
Truth(r) == r.count > 0

\* ------------------------------------------------------------------ the program
\* nodes: the arena of the trie         cache: the memo of RadixNode.find
\* added: the words add has stored, in call order (history)
\* last:  the latest facade call, its argument and what it returned or raised
\*        (a boolean result is recorded as 1 or 0, as Python's True and False)
\* nq:    the number of find-based queries run so far (history)
Call(op, arg, ret, exc) == [op |-> op, arg |-> arg, ret |-> ret, exc |-> exc]

Init ==
    /\ nodes = NewTrie
    /\ cache = NoCache
    /\ added = << >>
    /\ last = Call("init", << >>, 0, "none")
    /\ nq = 0

\* RadixTrie.add(word)
Add(word) ==
    LET r == TrieAdd(nodes, word)
    IN  /\ nodes' = r.nodes
        /\ added' = IF r.exc = "none" THEN Append(added, word) ELSE added
        /\ last' = Call("add", word, 0, r.exc)
        /\ UNCHANGED <<cache, nq>>

\* RadixTrie.is_word(word)
IsWord(word) ==
    LET r == is_word(nodes, cache, word)
    IN  /\ cache' = r.cache
        /\ last' = Call("is_word", word,
                        IF r.exc # "none" THEN -1 ELSE IF Truth(r) THEN 1 ELSE 0, r.exc)
        /\ nq' = nq + 1
        /\ UNCHANGED <<nodes, added>>

\* RadixTrie.is_sentence(string)
IsSentence(string) ==
    LET r == is_sentence(nodes, cache, string)
    IN  /\ cache' = r.cache
        /\ last' = Call("is_sentence", string,
                        IF r.exc # "none" THEN -1 ELSE IF Truth(r) THEN 1 ELSE 0, r.exc)
        /\ nq' = nq + 1
        /\ UNCHANGED <<nodes, added>>

\* RadixTrie.possible_sentences(string)
PossibleSentences(string) ==
    LET r == possible_sentences(nodes, cache, string)
    IN  /\ cache' = r.cache
        /\ last' = Call("possible_sentences", string, r.count, r.exc)
        /\ nq' = nq + 1
        /\ UNCHANGED <<nodes, added>>

\* RadixTrie.size()
Size ==
    /\ last' = Call("size", << >>, size(nodes), "none")
    /\ UNCHANGED <<nodes, cache, added, nq>>

Next ==
    \/ \E w \in Words : Len(added) < MaxAdds /\ Add(w)
    \/ \E q \in Queries : nq < MaxQueries /\ IsWord(q)
    \/ \E q \in Queries : nq < MaxQueries /\ IsSentence(q)
    \/ \E q \in Queries : nq < MaxQueries /\ PossibleSentences(q)
    \/ Size

Spec == Init /\ [][Next]_vars

\* The insertion phase alone: add calls with non-empty words
NextAdd ==
    \E w \in Words \ {<< >>} : Len(added) < MaxAdds /\ Add(w)

SpecAdd == Init /\ [][NextAdd]_vars

\* Adds and queries interleaved, each query possibly repeated, over a small
\* dictionary: the setting in which the memo of find matters
MemoWords == {<<"a">>, <<"b">>}
MemoStrings == {<<"a">>, <<"b">>, <<"a", "b">>}

NextMemo ==
    \/ \E w \in MemoWords : Len(added) < MemoAdds /\ Add(w)
    \/ \E q \in MemoStrings : nq < MemoQueries /\ IsWord(q)
    \/ \E q \in MemoStrings : nq < MemoQueries /\ IsSentence(q)
    \/ \E q \in MemoStrings : nq < MemoQueries /\ PossibleSentences(q)

SpecMemo == Init /\ [][NextMemo]_vars

\* ------------------------------------------------------------------ vocabulary of the properties
Range(s) == {s[i] : i \in DOMAIN s}

\* the words added so far are non-empty and pairwise distinct
DistinctNonEmpty(s) ==
    /\ \A i \in DOMAIN s : s[i] # << >>
    /\ \A i, j \in DOMAIN s : s[i] = s[j] => i = j

\* every order in which the words of s can be added
Orders(s) == {[i \in DOMAIN s |-> s[f[i]]] : f \in Permutations(DOMAIN s)}

IsPrefixOf(w, s) == Len(w) <= Len(s) /\ SubSeq(s, 1, Len(w)) = w

\* the word-break count: the number of ways to cut s into words of D
RECURSIVE WordBreak(_, _)
RECURSIVE WordBreakOver(_, _, _)
WordBreak(D, s) ==
    IF s = << >> THEN 1 ELSE WordBreakOver(D, {w \in D : w # << >> /\ IsPrefixOf(w, s)}, s)

WordBreakOver(D, heads, s) ==
    IF heads = {} THEN 0
    ELSE LET w == CHOOSE x \in heads : TRUE
         IN  WordBreak(D, SubSeq(s, Len(w) + 1, Len(s))) + WordBreakOver(D, heads \ {w}, s)

QueryOps == {"is_word", "is_sentence", "possible_sentences"}

\* what a caller observes of a query: the value, or the exception
Outcome(r) == <<r.exc, IF r.exc = "none" THEN Truth(r) ELSE FALSE>>

\* the first query on a trie that so far has only been added to
FirstQuery(op) == last.op = op /\ nq = 1

\* ------------------------------------------------------------------ properties
\* C1: on a trie that was only added to (non-empty words, each once), the first
\* query is_word(w) of a word w that was added returns True.
C1_AddedWordIsFound ==
    (FirstQuery("is_word") /\ DistinctNonEmpty(added) /\ last.arg \in Range(added))
        => (last.exc = "none" /\ last.ret = 1)

\* C2: a second add(w) right after a first add(w) changes neither size() nor the
\* result of is_word(q) for any q, in a trie built from non-empty words.
C2_AddIsIdempotent ==
    [][(/\ last.op = "add" /\ last.exc = "none" /\ last.arg # << >>
        /\ last'.op = "add" /\ last'.arg = last.arg
        /\ \A i \in DOMAIN added : added[i] # << >>)
       => (/\ size(nodes') = size(nodes)
           /\ \A q \in Queries :
                 Outcome(is_word(nodes', cache', q)) = Outcome(is_word(nodes, cache, q)))]_vars

\* C3: whatever the order in which a set of distinct non-empty words is added
\* to a fresh trie, is_word(q) answers the same for every q.
C3_OrderIndependent ==
    (nq = 0 /\ DistinctNonEmpty(added))
        => \A p \in Orders(added) : \A q \in Queries :
              Outcome(is_word(add_many(NewTrie, p), NoCache, q))
                  = Outcome(is_word(nodes, cache, q))

\* C4: on a trie built from distinct non-empty words D, possible_sentences(s)
\* of a non-empty s is the word-break count of s over D, and is_sentence(s) is
\* true exactly when that count is positive.
C4_CountsSegmentations ==
    (nq = 1 /\ DistinctNonEmpty(added) /\ last.arg # << >>)
        => /\ last.op = "possible_sentences"
                => (last.exc = "none" /\ last.ret = WordBreak(Range(added), last.arg))
           /\ last.op = "is_sentence"
                => (last.exc = "none"
                    /\ (last.ret = 1) = (WordBreak(Range(added), last.arg) > 0))

\* C5: on a trie built from distinct non-empty words D, is_word(q) is False for
\* every non-empty q that is neither in D nor a concatenation of words of D.
C5_NoFalsePositive ==
    (/\ FirstQuery("is_word") /\ DistinctNonEmpty(added)
     /\ last.arg # << >>
     /\ WordBreak(Range(added), last.arg) = 0)
        => (last.exc = "none" /\ last.ret = 0)

\* the strings of the repeating-prefix scenario
A1 == <<"a">>
A2 == <<"a", "a">>
A3 == <<"a", "a", "a">>
A4 == <<"a", "a", "a", "a">>
A5 == <<"a", "a", "a", "a", "a">>

\* C6: after add("a"), add("aa"), add("aaa") on a fresh trie, is_word is True
\* for "a", "aa", "aaa" and False for "aaaa" and "aaaaa".
C6_RepeatingPrefix ==
    (added = <<A1, A2, A3>> /\ nq = 0)
        => /\ \A w \in {A1, A2, A3} : Outcome(is_word(nodes, cache, w)) = <<"none", TRUE>>
           /\ \A w \in {A4, A5} : Outcome(is_word(nodes, cache, w)) = <<"none", FALSE>>

\* C7: every query with a non-empty string returns, also once add("") has made
\* the root a leaf: find never re-enters a call it is still computing.
C7_FindReturns ==
    /\ (last.op \in QueryOps /\ last.arg # << >>) => last.exc # "RecursionError"
    /\ (last.op = "add" /\ last.arg # << >>) => last.exc = "none"

\* C8: find("", wrap) on any node returns 1 if the node is a leaf and 0 if not,
\* raising nothing; so is_word("") is True exactly when the root is a leaf.
C8_EmptyInput ==
    (last.op \in QueryOps /\ last.arg = << >>)
        => /\ last.exc = "none"
           /\ (last.ret = 1) = nodes[root].is_leaf
           /\ \A n \in DOMAIN nodes : \A form \in Forms :
                 LET r == find(nodes, NoCache, {}, n, << >>, form)
                 IN  r.exc = "none" /\ r.count = (IF nodes[n].is_leaf THEN 1 ELSE 0)

\* the key under which the memo files the call a facade query makes on the root
FacadeKey(call) == <<root, call.arg, IF call.op = "is_word" THEN "default" ELSE "keyword">>

\* what the facade makes of a memoized count
FacadeRet(op, count) ==
    IF op = "possible_sentences" THEN count ELSE IF count > 0 THEN 1 ELSE 0

\* C9 as stated: calls of find on the same node with the same word and the same
\* wrap setting all return the same value, whatever is added in between.  The
\* memo holds the value of every call that returned, so two entries for one
\* (node, word, wrap) with different values are two calls that disagreed.
C9_SameNodeWordWrapSameValue ==
    \A k1, k2 \in DOMAIN cache :
        (k1[1] = k2[1] /\ k1[2] = k2[2] /\ LoopOf(k1[3]) = LoopOf(k2[3]))
            => cache[k1] = cache[k2]

\* C9 amended: the memo is keyed by the arguments as passed.  No step (add
\* included) removes or changes an entry, and a facade query whose key is in the
\* memo returns the memoized value.
C9_MemoNeverInvalidated ==
    [][/\ \A k \in DOMAIN cache : k \in DOMAIN cache' /\ cache'[k] = cache[k]
       /\ (last'.op \in QueryOps /\ FacadeKey(last') \in DOMAIN cache)
             => (last'.exc = "none"
                 /\ last'.ret = FacadeRet(last'.op, cache[FacadeKey(last')]))]_vars

\* a repeated is_word(w) that still answers False although w has been added
\* since and a fresh computation on the present tree finds it
C9_StaleAnswerReached ==
    /\ last.op = "is_word" /\ last.exc = "none" /\ last.ret = 0
    /\ nq = 2
    /\ last.arg \in Range(added)
    /\ Outcome(is_word(nodes, NoCache, last.arg)) = <<"none", TRUE>>

\* C10: in a trie built by add calls with non-empty words the root's prefix is
\* empty, every other node's prefix is not, every children entry k -> c has
\* c.prefix[0] = k, and every node's root reference is the trie's root.
C10_Structure ==
    /\ nodes[root].prefix = << >>
    /\ \A n \in DOMAIN nodes :
          /\ n # root => nodes[n].prefix # << >>
          /\ nodes[n].root = root
          /\ \A k \in DOMAIN nodes[n].children :
                LET c == nodes[n].children[k]
                IN  /\ c \in DOMAIN nodes
                    /\ nodes[c].prefix # << >>
                    /\ Head(nodes[c].prefix) = k

\* a split has happened: an inner node that is no word and has two children,
\* one of them the shrunk old child keyed by a character other than its parent's
C10_SplitReached ==
    \E n \in DOMAIN nodes :
        /\ n # root /\ ~nodes[n].is_leaf
        /\ Cardinality(DOMAIN nodes[n].children) = 2
        /\ \E k \in DOMAIN nodes[n].children : k # Head(nodes[n].prefix)

====
